---- MODULE Spec2Model ----
(***************************************************************************)
(* Streaming translation core of ghcp-ollama: the SSE frame splitter, the  *)
(* Ollama / OpenAI / Anthropic / Responses stream adapters, the stream     *)
(* dispatcher (sendHttpStreamingRequest) and the two HTTP handlers of      *)
(* server.js, as one state machine per streaming request.                  *)
(*                                                                         *)
(* Text is modelled as sequences of characters (short strings standing for *)
(* one character each).  An upstream SSE frame "data: <payload>\n\n" is    *)
(* four wire tokens: the first and the second half of the line, and two    *)
(* newlines, so that a chunk boundary can fall inside a line, between the  *)
(* two newlines, or between frames.                                        *)
(***************************************************************************)
EXTENDS Integers, Sequences, FiniteSets, TLC

VARIABLES
  proto,        \* which adapter / handler serves the request
  status,       \* res.statusCode of the upstream response
  stream,       \* the whole upstream body, as wire tokens
  pos,          \* number of tokens of stream already delivered as chunks
  grain,        \* where chunks end: "byte" anywhere, "frame" after a frame,
                \* "split" anywhere, and the second chunk is the rest of the body
  buffer,       \* sendHttpStreamingRequest: let buffer
  state,        \* sendHttpStreamingRequest: const incompleteResult (and what it references)
  promise,      \* the promise returned by sendHttpStreamingRequest
  hpc,          \* the handler: "awaiting" the promise, or "done"
  upstream,     \* "open" until the upstream response emitted 'end'
  clientClosed, \* the client closed the inbound connection
  res,          \* the client response: what was written, res.end() calls
  emitted,      \* every event handed to onResponse, in order
  splitAt,      \* under grain "split": the length k of the first chunk (0 before it)
  unary,        \* a non-streaming request: the upstream response and what #doSendUnified returns
  peer,         \* a second streaming request in flight at the same time
  auth,         \* the credential checks of a request, from the middleware to the reply
  conv          \* the inbound payload of a request and the upstream request made from it

vars == <<proto, status, stream, pos, grain, buffer, state, promise, hpc,
          upstream, clientClosed, res, emitted, splitAt, unary, peer, auth, conv>>

----------------------------------------------------------------------------
(* Bounds *)

MaxFrames == 3

----------------------------------------------------------------------------
(* Values: JS strings and objects *)

Str(s) == [t |-> "str", v |-> s]
Obj(m) == [t |-> "obj", v |-> m]

\* JS truthiness of a string or an object
Truthy(val) == val.t = "obj" \/ val.v # <<>>

\* String(x): an object prints as "[object Object]"
JsString(val) == IF val.t = "str" THEN val.v ELSE <<"[object Object]">>

\* the texts JSON.parse accepts here: "{" (key value)* "}"
IsJsonText(s) ==
  /\ Len(s) >= 2
  /\ s[1] = "{"
  /\ s[Len(s)] = "}"
  /\ Len(s) % 2 = 0
  /\ \A i \in 2..(Len(s) - 1) : s[i] \notin {"{", "}", "[object Object]"}

\* JSON.parse(x): x is coerced to a string first; ok = FALSE is a SyntaxError
JsonParse(val) ==
  LET s == JsString(val) IN
  IF IsJsonText(s) THEN [ok |-> TRUE, val |-> Obj(SubSeq(s, 2, Len(s) - 1))]
  ELSE [ok |-> FALSE, val |-> val]

----------------------------------------------------------------------------
(* Upstream frames (the payload of one "data: " line) *)

\* parsed.usage: has = FALSE when the frame has none; a count of -1 is a missing member;
\* cached is usage.prompt_tokens_details.cached_tokens
NoUsage == [has |-> FALSE, prompt |-> -1, completion |-> -1, cached |-> -1]
Usage(p, c) == [has |-> TRUE, prompt |-> p, completion |-> c, cached |-> -1]
UsageCached(p, c, k) == [has |-> TRUE, prompt |-> p, completion |-> c, cached |-> k]

\* x || 0 for a count that may be missing
OrZero(x) == IF x < 0 THEN 0 ELSE x

\* one element of choices[0].delta.tool_calls; id = "" and name = "" mean absent,
\* fn = FALSE means the element has no "function" member
ToolDelta(index, id, name, args) ==
  [index |-> index, id |-> id, fn |-> TRUE, name |-> name, args |-> args]

\* a decoded chunk: choice = FALSE means no choices[0], delta = FALSE no choices[0].delta,
\* annotations is the length of choices[0].delta.annotations (-1: no such member)
Json(content, tools, finish, usage) ==
  [kind |-> "json", choice |-> TRUE, delta |-> TRUE, content |-> content,
   tools |-> tools, finish |-> finish, usage |-> usage, annotations |-> -1]

DoneFrame == [kind |-> "done", choice |-> FALSE, delta |-> FALSE, content |-> <<>>,
              tools |-> <<>>, finish |-> "", usage |-> NoUsage, annotations |-> -1]
\* a payload that is not JSON text
BadFrame == [kind |-> "bad", choice |-> FALSE, delta |-> FALSE, content |-> <<>>,
             tools |-> <<>>, finish |-> "", usage |-> NoUsage, annotations |-> -1]

ModelName == "gpt-4o"

----------------------------------------------------------------------------
(* Wire tokens and the SSE frame splitter *)

NL == [t |-> "nl", f |-> DoneFrame]
HeadTok(f) == [t |-> "head", f |-> f]   \* "data: " and the first half of the payload
TailTok(f) == [t |-> "tail", f |-> f]   \* the second half of the payload

Wire(f) == <<HeadTok(f), TailTok(f), NL, NL>>

RECURSIVE WireAll(_)
WireAll(fs) == IF fs = <<>> THEN <<>> ELSE Wire(fs[1]) \o WireAll(Tail(fs))

RECURSIVE SplitBlank(_, _)
\* buffer.split("\n\n"), leftmost separators first; cur is the part being read
SplitBlank(s, cur) ==
  IF s = <<>> THEN <<cur>>
  ELSE IF Len(s) >= 2 /\ s[1].t = "nl" /\ s[2].t = "nl"
       THEN <<cur>> \o SplitBlank(SubSeq(s, 3, Len(s)), <<>>)
       ELSE SplitBlank(Tail(s), Append(cur, s[1]))

RECURSIVE SplitLines(_, _)
\* respMessage.split("\n")
SplitLines(s, cur) ==
  IF s = <<>> THEN <<cur>>
  ELSE IF s[1].t = "nl" THEN <<cur>> \o SplitLines(Tail(s), <<>>)
       ELSE SplitLines(Tail(s), Append(cur, s[1]))

\* const respMessages = buffer.split("\n\n"); const remainBuffer = respMessages.pop()
RespMessages(buf) == LET parts == SplitBlank(buf, <<>>) IN SubSeq(parts, 1, Len(parts) - 1)
RemainBuffer(buf) == LET parts == SplitBlank(buf, <<>>) IN parts[Len(parts)]

\* !respMessage || respMessage.trim() === ""
IsBlank(part) == \A i \in 1..Len(part) : part[i].t = "nl"

\* line.startsWith("data: ")
IsDataLine(line) == Len(line) >= 1 /\ line[1].t = "head"

\* line.slice(6), decoded: a line cut short or glued to foreign text is not JSON
Payload(line) ==
  IF Len(line) = 2 /\ line[2].t = "tail" /\ line[2].f = line[1].f
  THEN line[1].f ELSE BadFrame

----------------------------------------------------------------------------
(* OllamaAdapter.parseStreamChunk *)

\* The state object of an Ollama stream.  functions is a reference to an object of
\* the heap fobjs (0: no such property); currentToolFunc is a reference to an
\* accumulator of the heap ents (0: null or undefined); "" and -1 mean absent.
OllamaEmpty ==
  [functions |-> 0, currentToolFunc |-> 0, model |-> "", done_reason |-> "",
   prompt_eval_count |-> -1, eval_count |-> -1]

OllamaInit == [obj |-> OllamaEmpty, fobjs |-> <<>>, ents |-> <<>>]

\* An outbound Ollama frame
OllamaFrame(done, content, hasTools, toolCalls, st) ==
  [done |-> done, content |-> content, has_tool_calls |-> hasTools,
   tool_calls |-> toolCalls, model |-> st.model, done_reason |-> st.done_reason,
   prompt_eval_count |-> st.prompt_eval_count, eval_count |-> st.eval_count]

\* The parameter incompleteResult is a local binding: it names the caller's object
\* (aliased) until an assignment "incompleteResult = {...}" makes it name a fresh
\* object (loc), which the caller never sees.
Cur(acc) == IF acc.aliased THEN acc.obj ELSE acc.loc
SetCur(acc, s) == IF acc.aliased THEN [acc EXCEPT !.obj = s] ELSE [acc EXCEPT !.loc = s]
Rebind(acc, s) == [acc EXCEPT !.loc = s, !.aliased = FALSE]
Throw(acc) == [acc EXCEPT !.threw = TRUE]
Push(acc, ev) == [acc EXCEPT !.out = Append(@, ev)]

\* accumulators kept in a list: every delta that carries a name adds an entry
PutKeyAppend(fo, name, e) == Append(fo, [name |-> name, e |-> e])

\* functions[name] = entry: an existing key keeps its place in Object.values order
PutKey(fo, name, e) ==
  IF \E i \in 1..Len(fo) : fo[i].name = name
  THEN [i \in 1..Len(fo) |-> IF fo[i].name = name THEN [name |-> name, e |-> e] ELSE fo[i]]
  ELSE Append(fo, [name |-> name, e |-> e])

RECURSIVE OllamaParseArgs(_, _, _)
\* Object.values(functions).forEach(func => { if (func.arguments) func.arguments = JSON.parse(func.arguments) })
OllamaParseArgs(acc, fo, i) ==
  IF i > Len(fo) \/ acc.threw THEN acc
  ELSE LET a == acc.ents[fo[i].e].arguments IN
       IF ~Truthy(a) THEN OllamaParseArgs(acc, fo, i + 1)
       ELSE LET r == JsonParse(a) IN
            IF ~r.ok THEN Throw(acc)
            ELSE OllamaParseArgs([acc EXCEPT !.ents[fo[i].e].arguments = r.val], fo, i + 1)

\* if (choice.finish_reason) { ... }
OllamaFinish(acc, f) ==
  IF f.finish = "" THEN acc
  ELSE LET a1 == IF f.finish = "tool_calls" /\ Cur(acc).functions # 0
                 THEN OllamaParseArgs(acc, acc.fobjs[Cur(acc).functions], 1)
                 ELSE acc
       IN IF a1.threw \/ ~f.usage.has THEN a1
          ELSE Rebind(a1, [Cur(a1) EXCEPT !.done_reason = "stop",
                                          !.model = ModelName,
                                          !.prompt_eval_count = OrZero(f.usage.prompt),
                                          !.eval_count = OrZero(f.usage.completion)])

\* one toolCallDelta of choice.delta.tool_calls.forEach
OllamaToolDelta(acc, td) ==
  IF ~td.fn THEN Throw(acc)  \* toolFunc is undefined: toolFunc.name is a TypeError
  ELSE LET e  == Len(acc.ents) + 1
           c0 == Cur(acc)
           a1 == IF td.name = "" THEN acc
                 ELSE SetCur([acc EXCEPT
                                !.ents = Append(@, [name |-> td.name, arguments |-> Str(<<>>)]),
                                !.fobjs[c0.functions] = PutKey(@, td.name, e)],
                             [c0 EXCEPT !.currentToolFunc = e])
           c1 == Cur(a1)
       IN IF td.args = <<>> THEN a1
          ELSE IF c1.currentToolFunc = 0 THEN Throw(a1)  \* null.arguments is a TypeError
          ELSE [a1 EXCEPT !.ents[c1.currentToolFunc].arguments = Str(JsString(@) \o td.args)]

RECURSIVE OllamaToolDeltas(_, _, _)
OllamaToolDeltas(acc, tds, i) ==
  IF i > Len(tds) \/ acc.threw THEN acc
  ELSE OllamaToolDeltas(OllamaToolDelta(acc, tds[i]), tds, i + 1)

\* if (choice.delta) { ... }
OllamaDelta(acc, f) ==
  IF ~f.delta THEN acc
  ELSE LET a1 == IF f.content = <<>> THEN acc
                 ELSE Push(acc, OllamaFrame(FALSE, f.content, FALSE, <<>>,
                                            [OllamaEmpty EXCEPT !.model = ModelName]))
       IN IF f.tools = <<>> THEN a1
          ELSE LET c0 == Cur(a1)
                   a2 == IF c0.functions # 0 THEN a1
                         ELSE SetCur([a1 EXCEPT !.fobjs = Append(@, <<>>)],
                                     [c0 EXCEPT !.functions = Len(a1.fobjs) + 1,
                                                !.currentToolFunc = 0])
                   c2 == Cur(a2)
                   a3 == IF c2.model # "" THEN a2
                         ELSE SetCur(a2, [c2 EXCEPT !.model = ModelName])
               IN OllamaToolDeltas(a3, f.tools, 1)

\* a data line that is not [DONE]
OllamaData(acc, f) ==
  IF f.kind = "bad" THEN Throw(acc)       \* JSON.parse(data) throws
  ELSE IF ~f.choice THEN acc
  ELSE LET a1 == OllamaFinish(acc, f) IN
       IF a1.threw THEN a1 ELSE OllamaDelta(a1, f)

\* tool_calls: Object.values(functions).map(func => ({ function: { ...func } }))
OllamaToolCalls(acc, fo) == [i \in 1..Len(fo) |-> acc.ents[fo[i].e]]

\* an adapter that marks the tool_calls frame as the terminal one
ToolCallsDoneTrue(c) == TRUE

\* toolCallMessage = { done: false, ... }
ToolCallsDone(c) == FALSE

\* if (data === "[DONE]") { ... }
OllamaDone(acc) ==
  LET c0 == Cur(acc)
      hasFns == c0.functions # 0 /\ Len(acc.fobjs[c0.functions]) > 0
      a1 == IF ~hasFns THEN acc
            ELSE SetCur(Push(acc, OllamaFrame(ToolCallsDone(c0), <<>>, TRUE,
                                              OllamaToolCalls(acc, acc.fobjs[c0.functions]),
                                              [OllamaEmpty EXCEPT !.model = c0.model])),
                        [c0 EXCEPT !.currentToolFunc = 0, !.functions = 0])
      a2 == Push(a1, OllamaFrame(TRUE, <<>>, FALSE, <<>>, Cur(a1)))
  IN Rebind(a2, OllamaEmpty)

----------------------------------------------------------------------------
(* OpenAIAdapter.parseStreamChunk *)

\* _state is unused
OpenAIInit == [obj |-> <<>>, fobjs |-> <<>>, ents |-> <<>>]

\* parsedMessages.push(JSON.parse(data))
OpenAIData(acc, f) == IF f.kind = "bad" THEN Throw(acc) ELSE Push(acc, f)

\* [DONE]: break
OpenAIDone(acc) == acc

----------------------------------------------------------------------------
(* AnthropicAdapter.parseStreamChunk *)

\* identifiers minted from the clock and Math.random() (their values are ignored)
Minted == "minted"

\* The state object of an Anthropic stream; AnthropicEmpty is {} (a missing member
\* reads as falsy).  functions holds the accumulators in insertion order,
\* currentToolFunc is the position of one of them (0: null or undefined).
AnthropicEmpty ==
  [hasStarted |-> FALSE, hasStartedCurrentBlock |-> FALSE, currentIndex |-> -1,
   currentType |-> "", hasFunctions |-> FALSE, functions |-> <<>>,
   currentToolFunc |-> 0, stopReason |-> "", outputTokens |-> 0, inputTokens |-> 0]

AnthropicInit == [obj |-> AnthropicEmpty, fobjs |-> <<>>, ents |-> <<>>]

\* An outbound Anthropic event
AnthropicEvent(type) ==
  [type |-> type, index |-> -1, block |-> "", id |-> "", name |-> "", text |-> <<>>,
   stop_reason |-> "", input_tokens |-> -1, output_tokens |-> -1]

\* const stopReasonMap = {...}; stopReasonMap[choice.finish_reason] || "end_turn"
StopReasonMap(finish) ==
  CASE finish = "stop" -> "end_turn"
    [] finish = "length" -> "max_tokens"
    [] finish = "tool_calls" -> "tool_use"
    [] finish = "content_filter" -> "refusal"
    [] OTHER -> "end_turn"

\* if (data === "[DONE]") { ... }
AnthropicDone(acc) ==
  LET c == Cur(acc)
      a1 == IF c.hasStartedCurrentBlock
            THEN Push(acc, [AnthropicEvent("content_block_stop") EXCEPT !.index = c.currentIndex])
            ELSE acc
      a2 == IF c.outputTokens > 0
            THEN Push(a1, [AnthropicEvent("message_delta") EXCEPT
                             !.stop_reason = IF c.stopReason = "" THEN "end_turn" ELSE c.stopReason,
                             !.input_tokens = c.inputTokens,
                             !.output_tokens = c.outputTokens])
            ELSE a1
  IN Rebind(Push(a2, AnthropicEvent("message_stop")), AnthropicEmpty)

\* if (!incompleteResult.hasStarted) { ... } else if (parsed.usage?.prompt_tokens) { ... }
AnthropicStart(acc, f) ==
  LET c == Cur(acc)
      p == OrZero(f.usage.prompt)
  IN IF ~c.hasStarted
     THEN SetCur(Push(acc, [AnthropicEvent("message_start") EXCEPT
                              !.id = Minted, !.input_tokens = p, !.output_tokens = 0]),
                 [c EXCEPT !.hasStarted = TRUE, !.hasStartedCurrentBlock = FALSE,
                           !.currentIndex = -1, !.stopReason = "",
                           !.outputTokens = 0, !.inputTokens = p])
     ELSE IF p > 0 THEN SetCur(acc, [c EXCEPT !.inputTokens = p]) ELSE acc

\* an adapter that skips a block index
NextIndexSkip(c) == c.currentIndex + 2

\* incompleteResult.currentIndex++
NextIndex(c) == c.currentIndex + 1

\* if (choice.delta?.content) { ... }
AnthropicText(acc, f) ==
  IF ~f.delta \/ f.content = <<>> THEN acc
  ELSE LET c == Cur(acc)
           a1 == IF c.hasStartedCurrentBlock THEN acc
                 ELSE SetCur(Push(acc, [AnthropicEvent("content_block_start") EXCEPT
                                          !.index = NextIndex(c), !.block = "text"]),
                             [c EXCEPT !.currentIndex = NextIndex(c),
                                       !.hasStartedCurrentBlock = TRUE,
                                       !.currentType = "text"])
       IN Push(a1, [AnthropicEvent("content_block_delta") EXCEPT
                      !.index = Cur(a1).currentIndex, !.block = "text", !.text = f.content])

\* position of the accumulator functions[name], 0 when there is none
FuncAt(fns, name) ==
  IF \E i \in 1..Len(fns) : fns[i].name = name
  THEN CHOOSE i \in 1..Len(fns) : fns[i].name = name ELSE 0

\* if (toolFunc.name) { ... if (!incompleteResult.functions[toolFunc.name]) { ... } }
AnthropicToolName(acc, td) ==
  LET c == Cur(acc)
      toolId == IF td.id # "" THEN td.id ELSE Minted
  IN IF td.name = "" \/ FuncAt(c.functions, td.name) # 0 THEN acc
     ELSE LET a1 == IF c.hasStartedCurrentBlock /\ c.currentType = "text"
                    THEN Push(acc, [AnthropicEvent("content_block_stop") EXCEPT
                                      !.index = c.currentIndex])
                    ELSE acc
          IN SetCur(Push(a1, [AnthropicEvent("content_block_start") EXCEPT
                                !.index = NextIndex(c), !.block = "tool_use",
                                !.id = toolId, !.name = td.name]),
                    [c EXCEPT !.functions = Append(@, [id |-> toolId, name |-> td.name,
                                                       input |-> Str(<<>>)]),
                              !.currentToolFunc = Len(c.functions) + 1,
                              !.currentIndex = NextIndex(c),
                              !.hasStartedCurrentBlock = TRUE,
                              !.currentType = "tool_use"])

\* if (toolFunc.arguments && incompleteResult.currentToolFunc) { ... }
AnthropicToolArgs(acc, td) ==
  LET c == Cur(acc) IN
  IF td.args = <<>> \/ c.currentToolFunc = 0 THEN acc
  ELSE SetCur(Push(acc, [AnthropicEvent("content_block_delta") EXCEPT
                           !.index = c.currentIndex, !.block = "input_json_delta",
                           !.text = td.args]),
              [c EXCEPT !.functions[c.currentToolFunc].input = Str(JsString(@) \o td.args)])

RECURSIVE AnthropicToolDeltas(_, _, _)
\* choice.delta.tool_calls.forEach((toolCallDelta) => { ... })
AnthropicToolDeltas(acc, tds, i) ==
  IF i > Len(tds) \/ acc.threw THEN acc
  ELSE IF ~tds[i].fn THEN Throw(acc)  \* toolFunc is undefined: toolFunc.name is a TypeError
  ELSE AnthropicToolDeltas(AnthropicToolArgs(AnthropicToolName(acc, tds[i]), tds[i]), tds, i + 1)

\* if (choice.delta?.tool_calls && choice.delta.tool_calls.length > 0) { ... }
AnthropicTools(acc, f) ==
  IF ~f.delta \/ f.tools = <<>> THEN acc
  ELSE AnthropicToolDeltas(SetCur(acc, [Cur(acc) EXCEPT !.hasFunctions = TRUE]), f.tools, 1)

\* func.input = JSON.parse(func.input), kept as it is when that throws
AnthropicParseInput(fn) ==
  IF fn.input.t = "str" /\ fn.input.v # <<>> /\ JsonParse(fn.input).ok
  THEN [fn EXCEPT !.input = JsonParse(fn.input).val] ELSE fn

\* if (choice.finish_reason) { ... }
AnthropicFinish(acc, f) ==
  IF f.finish = "" THEN acc
  ELSE LET c == Cur(acc) IN
       SetCur(acc, [c EXCEPT
                      !.functions = [i \in 1..Len(c.functions) |-> AnthropicParseInput(c.functions[i])],
                      !.stopReason = StopReasonMap(f.finish),
                      !.outputTokens = OrZero(f.usage.completion)])

\* a data line that is not [DONE]
AnthropicData(acc, f) ==
  IF f.kind = "bad" THEN Throw(acc)
  ELSE LET a0 == AnthropicStart(acc, f) IN
       IF ~f.choice THEN a0
       ELSE LET a2 == AnthropicTools(AnthropicText(a0, f), f) IN
            IF a2.threw THEN a2 ELSE AnthropicFinish(a2, f)

----------------------------------------------------------------------------
(* OpenAIResponseAdapter.parseStreamChunk *)

\* The state object of a Responses stream; ResponseEmpty is {}.  toolCalls holds the
\* accumulators in Object.values order (ascending key).
ResponseEmpty ==
  [initialized |-> FALSE, outputText |-> <<>>, usage |-> NoUsage, toolCalls |-> <<>>,
   started |-> FALSE, outputItemAdded |-> FALSE, contentPartAdded |-> FALSE,
   annotationAdded |-> FALSE, contentPartDone |-> FALSE, outputItemDone |-> FALSE,
   currentAnnotations |-> 0]

ResponseInit == [obj |-> ResponseEmpty, fobjs |-> <<>>, ents |-> <<>>]

\* the member "output" of an envelope that has none
NoOutput == [present |-> FALSE, items |-> <<>>]

\* An outbound Responses event; the envelope of response.completed is
\* { id, object, created_at, status, model, output_text, usage }
ResponseEvent(type) ==
  [type |-> type, output_index |-> 0, item_id |-> "", text |-> <<>>,
   annotation_index |-> -1, usage |-> NoUsage, output |-> NoOutput]

\* if (!state.initialized) { ... }, at the top of every call
ResponsePrologue(acc) ==
  IF Cur(acc).initialized THEN acc
  ELSE SetCur(acc, [ResponseEmpty EXCEPT !.initialized = TRUE])

\* state.usage = { ...state.usage, ...parsed.usage }
MergeUsage(old, new) ==
  IF ~new.has THEN old
  ELSE [has |-> TRUE,
        prompt |-> IF new.prompt >= 0 THEN new.prompt ELSE old.prompt,
        completion |-> IF new.completion >= 0 THEN new.completion ELSE old.completion,
        cached |-> IF new.cached >= 0 THEN new.cached ELSE old.cached]

\* an adapter that forgets the tool calls at [DONE]
ResponseArgsDoneNone(acc, tcs, i) == acc

RECURSIVE ResponseArgsDone(_, _, _)
\* for (const toolCall of Object.values(state.toolCalls)) { ... }
ResponseArgsDone(acc, tcs, i) ==
  IF i > Len(tcs) THEN acc
  ELSE ResponseArgsDone(
         Push(acc, [ResponseEvent("response.function_call_arguments.done") EXCEPT
                      !.output_index = tcs[i].outputIndex, !.item_id = tcs[i].itemId,
                      !.text = tcs[i].arguments]),
         tcs, i + 1)

\* if (data === "[DONE]") { ...; continue; }
ResponseDone(acc) ==
  LET c == Cur(acc)
      partDone == c.contentPartAdded /\ ~c.contentPartDone
      itemDone == c.outputItemAdded /\ ~c.outputItemDone
      a1 == IF partDone
            THEN Push(acc, [ResponseEvent("response.content_part.done") EXCEPT
                              !.item_id = Minted, !.text = c.outputText])
            ELSE acc
      a2 == IF itemDone
            THEN Push(a1, [ResponseEvent("response.output_item.done") EXCEPT
                             !.item_id = Minted, !.text = c.outputText])
            ELSE a1
      a3 == IF c.outputText # <<>>
            THEN Push(a2, [ResponseEvent("response.output_text.done") EXCEPT
                             !.text = c.outputText])
            ELSE a2
      a4 == ResponseArgsDone(a3, c.toolCalls, 1)
      a5 == Push(a4, [ResponseEvent("response.completed") EXCEPT
                        !.text = c.outputText, !.usage = c.usage])
  IN SetCur(a5, [c EXCEPT !.contentPartDone = @ \/ partDone,
                          !.outputItemDone = @ \/ itemDone])

\* position of state.toolCalls[key], 0 when there is none
ToolCallAt(tcs, key) ==
  IF \E i \in 1..Len(tcs) : tcs[i].key = key
  THEN CHOOSE i \in 1..Len(tcs) : tcs[i].key = key ELSE 0

\* state.toolCalls[key] = {...}: integer keys are kept in ascending order
InsertToolCall(tcs, tc) ==
  LET before == SelectSeq(tcs, LAMBDA x : x.key < tc.key)
      after  == SelectSeq(tcs, LAMBDA x : x.key > tc.key)
  IN before \o <<tc>> \o after

\* one toolDelta of choice.delta.tool_calls
ResponseToolDelta(acc, td) ==
  LET c == Cur(acc)
      tcs1 == IF ToolCallAt(c.toolCalls, td.index) # 0 THEN c.toolCalls
              ELSE InsertToolCall(c.toolCalls,
                     [key |-> td.index,
                      outputIndex |-> td.index + (IF c.outputText # <<>> THEN 1 ELSE 0),
                      itemId |-> IF td.id # "" THEN td.id ELSE Minted,
                      arguments |-> <<>>])
      k == ToolCallAt(tcs1, td.index)
      tcs2 == IF td.id # "" THEN [tcs1 EXCEPT ![k].itemId = td.id] ELSE tcs1
      hasArgs == td.fn /\ td.args # <<>>
      tcs3 == IF hasArgs THEN [tcs2 EXCEPT ![k].arguments = @ \o td.args] ELSE tcs2
      a1 == SetCur(acc, [c EXCEPT !.toolCalls = tcs3])
  IN IF hasArgs
     THEN Push(a1, [ResponseEvent("response.function_call_arguments.delta") EXCEPT
                      !.output_index = tcs3[k].outputIndex, !.item_id = tcs3[k].itemId,
                      !.text = td.args])
     ELSE a1

RECURSIVE ResponseToolDeltas(_, _, _)
ResponseToolDeltas(acc, tds, i) ==
  IF i > Len(tds) THEN acc
  ELSE ResponseToolDeltas(ResponseToolDelta(acc, tds[i]), tds, i + 1)

RECURSIVE ResponseAnnotations(_, _, _)
\* for (let idx = 0; idx < choice.delta.annotations.length; idx++) { ... }
ResponseAnnotations(acc, n, idx) ==
  IF idx >= n THEN acc
  ELSE ResponseAnnotations(
         Push(acc, [ResponseEvent("response.output_text.annotation_added") EXCEPT
                      !.item_id = Minted, !.annotation_index = idx]),
         n, idx + 1)

\* the part of the loop body after "if (!choice || !choice.delta) continue"
ResponseChoice(acc, f) ==
  LET c == Cur(acc)
      a1 == IF c.outputItemAdded THEN acc
            ELSE Push(acc, [ResponseEvent("response.output_item.added") EXCEPT !.item_id = Minted])
      a2 == IF ~c.contentPartAdded /\ f.content # <<>>
            THEN Push(a1, [ResponseEvent("response.content_part.added") EXCEPT !.item_id = Minted])
            ELSE a1
      a3 == IF f.content # <<>>
            THEN Push(a2, [ResponseEvent("response.output_text.delta") EXCEPT !.text = f.content])
            ELSE a2
      annotate == f.annotations >= 0 /\ ~c.annotationAdded
      a4 == IF annotate THEN ResponseAnnotations(a3, f.annotations, 0) ELSE a3
      a5 == SetCur(a4, [c EXCEPT !.outputItemAdded = TRUE,
                                 !.contentPartAdded = @ \/ f.content # <<>>,
                                 !.outputText = @ \o f.content,
                                 !.annotationAdded = @ \/ annotate,
                                 !.currentAnnotations = IF annotate THEN f.annotations ELSE @])
  IN ResponseToolDeltas(a5, f.tools, 1)

\* a data line that is not [DONE]
ResponseData(acc, f) ==
  IF f.kind = "bad" THEN Throw(acc)
  ELSE LET c == Cur(acc)
           a1 == IF c.started THEN acc
                 ELSE Push(Push(acc, ResponseEvent("response.created")),
                           ResponseEvent("response.in_progress"))
           a2 == SetCur(a1, [c EXCEPT !.started = TRUE, !.usage = MergeUsage(@, f.usage)])
       IN IF ~f.choice \/ ~f.delta THEN a2 ELSE ResponseChoice(a2, f)

----------------------------------------------------------------------------
(* parseStreamChunk: the frame loop shared by the four adapters *)

AdapterInit(p) ==
  CASE p = "ollama" -> OllamaInit
    [] p = "openai" -> OpenAIInit
    [] p = "anthropic" -> AnthropicInit
    [] OTHER -> ResponseInit

DataStep(p, acc, f) ==
  CASE p = "ollama" -> OllamaData(acc, f)
    [] p = "openai" -> OpenAIData(acc, f)
    [] p = "anthropic" -> AnthropicData(acc, f)
    [] OTHER -> ResponseData(acc, f)

DoneStep(p, acc) ==
  CASE p = "ollama" -> OllamaDone(acc)
    [] p = "openai" -> OpenAIDone(acc)
    [] p = "anthropic" -> AnthropicDone(acc)
    [] OTHER -> ResponseDone(acc)

\* after [DONE] the Responses adapter goes on with the next line ("continue"), the
\* other three leave the frame ("break")
BreaksOnDone(p) == p # "response"

RECURSIVE ProcLines(_, _, _, _)
\* for (const line of lines) { if (line.startsWith("data: ")) { ... } }
ProcLines(p, acc, lines, i) ==
  IF i > Len(lines) \/ acc.threw THEN acc
  ELSE IF ~IsDataLine(lines[i]) THEN ProcLines(p, acc, lines, i + 1)
  ELSE LET f == Payload(lines[i]) IN
       IF f.kind = "done"
       THEN IF BreaksOnDone(p) THEN DoneStep(p, acc)
            ELSE ProcLines(p, DoneStep(p, acc), lines, i + 1)
       ELSE ProcLines(p, DataStep(p, acc, f), lines, i + 1)

RECURSIVE ProcMessages(_, _, _, _)
\* for (const respMessage of respMessages) { ... }
ProcMessages(p, acc, parts, i) ==
  IF i > Len(parts) \/ acc.threw THEN acc
  ELSE IF IsBlank(parts[i]) THEN ProcMessages(p, acc, parts, i + 1)
  ELSE ProcMessages(p, ProcLines(p, acc, SplitLines(parts[i], <<>>), 1), parts, i + 1)

\* adapter.parseStreamChunk(buffer, state): what it returns, whether it threw, and
\* the caller's state object as the call leaves it (also when it threw)
ParseStreamChunk(p, buf, st) ==
  LET acc0 == [obj |-> st.obj, loc |-> st.obj, aliased |-> TRUE, fobjs |-> st.fobjs,
               ents |-> st.ents, out |-> <<>>, threw |-> FALSE]
      acc1 == IF p = "response" THEN ResponsePrologue(acc0) ELSE acc0
      acc  == ProcMessages(p, acc1, RespMessages(buf), 1)
  IN [parsedMessages |-> acc.out, remainBuffer |-> RemainBuffer(buf), threw |-> acc.threw,
      state |-> [obj |-> acc.obj, fobjs |-> acc.fobjs, ents |-> acc.ents]]

----------------------------------------------------------------------------
(* The client response and the onResponse callbacks of the handlers *)

NoEvent == [none |-> TRUE]
Preamble == [w |-> "preamble", ev |-> NoEvent]   \* res.write("\n")
Sentinel == [w |-> "sentinel", ev |-> NoEvent]   \* res.write("data: [DONE]\n\n")
ErrorFrame == [w |-> "error", ev |-> NoEvent]    \* data: {error, message}
EventFrame(ev) == [w |-> "event", ev |-> ev]

\* res.write(w): a write after res.end() or to a closed connection reaches nobody
ResWrite(r, w, closed) ==
  IF r.endCalls > 0 THEN [r EXCEPT !.lateWrites = Append(@, w)]
  ELSE IF closed THEN [r EXCEPT !.closedWrites = Append(@, w)]
  ELSE [r EXCEPT !.out = Append(@, w)]

\* res.end()
ResEndCall(r) == [r EXCEPT !.endCalls = @ + 1]

RECURSIVE WriteAllLastFirst(_, _, _, _)
\* a handler that writes the events of a chunk last to first
WriteAllLastFirst(r, msgs, i, closed) ==
  IF i > Len(msgs) THEN r
  ELSE ResWrite(WriteAllLastFirst(r, msgs, i + 1, closed), EventFrame(msgs[i]), closed)

RECURSIVE WriteAll(_, _, _, _)
\* for (const respMessage of respMessages) res.write(...)
WriteAll(r, msgs, i, closed) ==
  IF i > Len(msgs) THEN r
  ELSE WriteAll(ResWrite(r, EventFrame(msgs[i]), closed), msgs, i + 1, closed)

\* handleChatRequest: (respMessages, event) => { ... }
OllamaOnResponse(r, msgs, event, closed) ==
  LET r1 == WriteAll(r, msgs, 1, closed) IN
  IF event = "end" THEN ResEndCall(r1) ELSE r1

\* handleOpenAIChatRequest: (respMessages, event) => { ... }
OpenAIOnResponse(r, msgs, event, closed) ==
  LET r1 == WriteAll(r, msgs, 1, closed) IN
  IF event = "end" THEN ResEndCall(ResWrite(r1, Sentinel, closed)) ELSE r1

\* the Anthropic and Responses handlers: every event as an SSE frame, close at the end
SseOnResponse(r, msgs, event, closed) ==
  LET r1 == WriteAll(r, msgs, 1, closed) IN
  IF event = "end" THEN ResEndCall(r1) ELSE r1

OnResponse(p, r, msgs, event, closed) ==
  CASE p = "ollama" -> OllamaOnResponse(r, msgs, event, closed)
    [] p = "openai" -> OpenAIOnResponse(r, msgs, event, closed)
    [] OTHER -> SseOnResponse(r, msgs, event, closed)

\* if (!chatResult.success) { res.write(`data: ${JSON.stringify(resp)}\n\n`); res.end(); }
HandlerFailure(r, closed) == ResEndCall(ResWrite(r, ErrorFrame, closed))

----------------------------------------------------------------------------
(* sendHttpStreamingRequest and the handler awaiting it *)

Reject(pr) == IF pr = "pending" THEN "rejected" ELSE pr
Resolve(pr) == IF pr = "pending" THEN "resolved" ELSE pr

\* the continuation of the handler runs as a microtask, before any other event
Drained == promise = "pending" \/ hpc = "done"

FrameLen == Len(Wire(DoneFrame))

\* the sizes the next chunk can have
ChunkSizes ==
  CASE grain = "byte" -> 1..(Len(stream) - pos)
    [] grain = "frame" -> {n \in 1..(Len(stream) - pos) : n % FrameLen = 0}
    [] OTHER -> IF pos = 0 THEN 1..(Len(stream) - 1) ELSE {Len(stream) - pos}

\* a dispatcher that forgets the incomplete tail
NextBufferDropped(parsed) == <<>>

\* buffer = parsed.remainBuffer
NextBuffer(parsed) == parsed.remainBuffer

\* a dispatcher that empties the buffer when parseResp throws
BufferAfterThrowReset(buf) == <<>>

\* the catch block leaves "buffer += chunk.toString()" as it is
BufferAfterThrow(buf) == buf

\* res.on("data", (chunk) => { ... })
ResData ==
  /\ upstream = "open"
  /\ Drained
  /\ \E n \in ChunkSizes :
       LET buf == buffer \o SubSeq(stream, pos + 1, pos + n)
           parsed == ParseStreamChunk(proto, buf, state)
       IN /\ pos' = pos + n
          /\ splitAt' = IF grain = "split" /\ pos = 0 THEN n ELSE splitAt
          /\ state' = parsed.state
          /\ IF parsed.threw
             THEN /\ promise' = Reject(promise)
                  /\ buffer' = BufferAfterThrow(buf)
                  /\ UNCHANGED <<res, emitted>>
             ELSE /\ res' = OnResponse(proto, res, parsed.parsedMessages, "data", clientClosed)
                  /\ emitted' = emitted \o parsed.parsedMessages
                  /\ buffer' = NextBuffer(parsed)
                  /\ UNCHANGED promise
  /\ UNCHANGED <<proto, status, stream, grain, hpc, upstream, clientClosed, unary, peer, auth, conv>>


\* the 'end' listeners: the one of "if (res.statusCode !== 200)", then res.on("end", ...)
ResEnd ==
  /\ upstream = "open"
  /\ Drained
  /\ pos = Len(stream)
  /\ LET p1 == IF status # 200 THEN Reject(promise) ELSE promise
         parsed == ParseStreamChunk(proto, buffer, state)
     IN /\ state' = parsed.state
        /\ IF parsed.threw
           THEN /\ promise' = Reject(p1)
                /\ UNCHANGED <<res, emitted>>
           ELSE /\ res' = OnResponse(proto, res, parsed.parsedMessages, "end", clientClosed)
                /\ emitted' = emitted \o parsed.parsedMessages
                /\ promise' = Resolve(p1)
  /\ upstream' = "ended"
  /\ UNCHANGED <<proto, status, stream, pos, grain, buffer, hpc, clientClosed, splitAt,
                 unary, peer, auth, conv>>

\* handleChatRequest / handleOpenAIChatRequest after "await chatClient.sendStreaming...":
\* #doSendUnified turned a rejection into { success: false }
HandlerResume ==
  /\ promise # "pending"
  /\ hpc = "awaiting"
  /\ hpc' = "done"
  /\ res' = IF promise = "rejected" THEN HandlerFailure(res, clientClosed) ELSE res
  /\ UNCHANGED <<proto, status, stream, pos, grain, buffer, state, promise, upstream,
                 clientClosed, emitted, splitAt, unary, peer, auth, conv>>

\* the client closes the inbound connection; no handler listens for it
ClientClose ==
  /\ ~clientClosed
  /\ upstream = "open"
  /\ Drained
  /\ clientClosed' = TRUE
  /\ UNCHANGED <<proto, status, stream, pos, grain, buffer, state, promise, hpc,
                 upstream, res, emitted, splitAt, unary, peer, auth, conv>>

Next == ResData \/ ResEnd \/ HandlerResume \/ ClientClose

----------------------------------------------------------------------------
(* Upstream bodies *)

TextFrame == Json(<<"a">>, <<>>, "", NoUsage)
FinishFrame == Json(<<>>, <<>>, "stop", Usage(5, 2))

\* all sequences of at most n frames of the set fs
FrameSeqs(fs, n) == UNION {[1..k -> fs] : k \in 0..n}

\* no non-streaming request is made
NoUnary == [resp |-> [choices |-> <<>>], result |-> [success |-> FALSE], returned |-> FALSE]

\* the request is past its credential checks
NoAuth == [pc |-> "done"]

\* no request conversion is looked at
NoConv == [done |-> TRUE]

\* no second request is in flight
NoPeer == [proto |-> "", stream |-> <<>>, pos |-> 0, buffer |-> <<>>, state |-> OpenAIInit,
           upstream |-> "ended", emitted |-> <<>>]

\* the state in which the handler has written its preamble and awaits the request,
\* the upstream body being the wire tokens body and the upstream request being at up
StartAt(p, sc, body, g, up) ==
  /\ proto = p
  /\ status = sc
  /\ stream = body
  /\ grain = g
  /\ pos = 0
  /\ buffer = <<>>
  /\ state = AdapterInit(p)
  /\ promise = "pending"
  /\ hpc = "awaiting"
  /\ upstream = up
  /\ clientClosed = FALSE
  /\ res = [out |-> <<Preamble>>, endCalls |-> 0, lateWrites |-> <<>>, closedWrites |-> <<>>]
  /\ emitted = <<>>
  /\ splitAt = 0
  /\ unary = NoUnary
  /\ peer = NoPeer
  /\ auth = NoAuth
  /\ conv = NoConv

\* the same once the upstream response has arrived
StartBody(p, sc, body, g) == StartAt(p, sc, body, g, "open")

\* the same, the upstream body being whole frames
Start(p, sc, frames, g) == StartBody(p, sc, WireAll(frames), g)

\* the two handlers of server.js, any status, any chunking
PipelineFrames == {TextFrame, FinishFrame, DoneFrame, BadFrame}

Init ==
  \E p \in {"ollama", "openai"}, sc \in {200, 500}, fs \in FrameSeqs(PipelineFrames, MaxFrames) :
    Start(p, sc, fs, "byte")

Spec == Init /\ [][Next]_vars

----------------------------------------------------------------------------
(* Re-chunk invariance (scenarios 1 and 3 of the end-to-end fixtures) *)

\* Ollama simple text: two content deltas, finish_reason "stop" with usage, [DONE]
OllamaTextStream ==
  <<Json(<<"Hello ">>, <<>>, "", NoUsage),
    Json(<<"world.">>, <<>>, "", NoUsage),
    Json(<<>>, <<>>, "stop", Usage(5, 2)),
    DoneFrame>>

\* Anthropic tool use: the name, two argument deltas, finish_reason "tool_calls"
\* with usage, [DONE]
AnthropicToolStream ==
  <<Json(<<>>, <<ToolDelta(0, "call_xyz", "get_weather", <<>>)>>, "", NoUsage),
    Json(<<>>, <<ToolDelta(0, "", "", <<"{", "location">>)>>, "", NoUsage),
    Json(<<>>, <<ToolDelta(0, "", "", <<"Beijing", "}">>)>>, "", NoUsage),
    Json(<<>>, <<>>, "tool_calls", Usage(100, 20)),
    DoneFrame>>

\* the events of one call on the whole body B, followed by the end-of-stream drain
SingleCall(p, body) ==
  LET one == ParseStreamChunk(p, body, AdapterInit(p))
      drain == ParseStreamChunk(p, one.remainBuffer, one.state)
  IN one.parsedMessages \o drain.parsedMessages

InitRechunk ==
  \/ Start("ollama", 200, OllamaTextStream, "split")
  \/ Start("anthropic", 200, AnthropicToolStream, "split")

SpecRechunk == InitRechunk /\ [][Next]_vars

\* C1: for the Ollama simple-text body B and every split point k, delivering B[:k]
\* and then B[k:] hands the client exactly the frames of one delivery of B
C1_OllamaRechunk ==
  (proto = "ollama" /\ upstream = "ended") => emitted = SingleCall("ollama", stream)

\* C9: for the Anthropic tool-use body B and every split point k, B[:k] and then the
\* retained remainder plus B[k:] yield the events of a single call on B
C9_AnthropicRechunk ==
  (proto = "anthropic" /\ upstream = "ended") => emitted = SingleCall("anthropic", stream)

\* the body was split inside a frame, both chunks were parsed and the stream ended
C9_Witness ==
  /\ proto = "anthropic"
  /\ upstream = "ended"
  /\ splitAt % FrameLen # 0
  /\ \E i \in 1..Len(emitted) : emitted[i].type = "message_stop"

----------------------------------------------------------------------------
(* Claims about the pipeline (specification Spec) *)

\* the writes of `out` that are the protocol's terminal event
Terminals(p, out) ==
  {i \in 1..Len(out) :
     \/ p = "ollama" /\ out[i].w = "event" /\ out[i].ev.done
     \/ p = "openai" /\ out[i].w = "sentinel"}

\* the request ran to the end of the upstream body without any failure
CleanEnd ==
  /\ status = 200
  /\ upstream = "ended"
  /\ promise = "resolved"
  /\ hpc = "done"
  /\ ~clientClosed

\* C2: when the upstream response reaches end-of-stream, the client has received the
\* protocol's terminal event exactly once, whatever frames upstream sent
C2_TerminalOnce ==
  (CleanEnd /\ Len(stream) > 0) => Cardinality(Terminals(proto, res.out)) = 1

\* C6: on a non-200 upstream status the handler writes one error frame, as the last
\* thing written and before the response is ended, and ends the response once
C6_ErrorFrameOnNon200 ==
  (status # 200 /\ hpc = "done" /\ ~clientClosed) =>
     /\ res.endCalls = 1
     /\ res.lateWrites = <<>>
     /\ res.out[Len(res.out)] = ErrorFrame
     /\ Cardinality({i \in 1..Len(res.out) : res.out[i] = ErrorFrame}) = 1

\* the dispatcher caught a failure of parseStreamChunk on a 200 response
ParseFailed == status = 200 /\ promise = "rejected"

\* C7: after a parse failure the client has one error frame, as the final frame, the
\* response is closed once, and nothing is written afterwards by later chunks or by
\* the end-of-stream drain
C7_ParseFailureFatal ==
  (ParseFailed /\ hpc = "done" /\ ~clientClosed) =>
     /\ res.endCalls = 1
     /\ res.lateWrites = <<>>
     /\ res.out[Len(res.out)] = ErrorFrame
     /\ Cardinality({i \in 1..Len(res.out) : res.out[i] = ErrorFrame}) = 1

\* a frame failed to parse in the middle of the body, events had been written before
\* it, and the stream went on to its end
C7_Witness ==
  /\ ParseFailed
  /\ hpc = "done"
  /\ ~clientClosed
  /\ upstream = "ended"
  /\ Len(res.out) >= 3
  /\ \E i \in 1..(Len(stream) - FrameLen) : stream[i] = HeadTok(BadFrame)

\* C8: after the client closed the connection nothing more is written to the response
C8_NoWriteAfterClose == res.closedWrites = <<>>

----------------------------------------------------------------------------
(* The Anthropic adapter under the dispatcher (specification SpecAnthropic) *)

MaxAnthropicFrames == 3

ToolF == Json(<<>>, <<ToolDelta(0, "call_f", "f", <<>>)>>, "", NoUsage)
ToolG == Json(<<>>, <<ToolDelta(1, "", "g", <<>>)>>, "", NoUsage)
ToolArgs == Json(<<>>, <<ToolDelta(0, "", "", <<"{", "}">>)>>, "", NoUsage)
FinishNoUsage == Json(<<>>, <<>>, "tool_calls", NoUsage)
\* a second call of the function f, with its own id and index
ToolF2 == Json(<<>>, <<ToolDelta(1, "call_f2", "f", <<>>)>>, "", NoUsage)
\* 3 of the 5 prompt tokens were read from the cache
FinishCached == Json(<<>>, <<>>, "stop", UsageCached(5, 2, 3))

AnthropicFrames ==
  {TextFrame, ToolF, ToolG, ToolF2, ToolArgs, FinishFrame, FinishNoUsage, FinishCached}

\* a 200 response whose body is delta frames, terminated by [DONE] or cut short,
\* delivered in chunks of whole frames
InitAnthropic ==
  \E fs \in FrameSeqs(AnthropicFrames, MaxAnthropicFrames), tail \in {<<>>, <<DoneFrame>>} :
    Start("anthropic", 200, fs \o tail, "frame")

SpecAnthropic == InitAnthropic /\ [][Next]_vars

IsStart(ev) == ev.type = "content_block_start"
IsStop(ev) == ev.type = "content_block_stop"

\* C3: each content_block_start with index i is preceded by exactly i
\* content_block_start events, all at smaller indices, and each content_block_stop
\* with index i is preceded by a content_block_start with index i with no start at
\* the same index in between
C3_BlockLifeCycle ==
  \A j \in 1..Len(emitted) :
    /\ IsStart(emitted[j]) =>
         /\ Cardinality({k \in 1..(j - 1) : IsStart(emitted[k])}) = emitted[j].index
         /\ \A k \in 1..(j - 1) : IsStart(emitted[k]) => emitted[k].index < emitted[j].index
    /\ IsStop(emitted[j]) =>
         \E k \in 1..(j - 1) :
           /\ IsStart(emitted[k])
           /\ emitted[k].index = emitted[j].index
           /\ \A m \in (k + 1)..(j - 1) :
                ~(IsStart(emitted[m]) /\ emitted[m].index = emitted[j].index)

\* a text block was closed by a tool block, which [DONE] closed in its turn
C3_Witness ==
  /\ upstream = "ended"
  /\ promise = "resolved"
  /\ \E j \in 1..Len(emitted) : IsStop(emitted[j]) /\ emitted[j].index = 0
  /\ \E j \in 1..Len(emitted) : IsStart(emitted[j]) /\ emitted[j].index = 1
  /\ \E j \in 1..Len(emitted) : IsStop(emitted[j]) /\ emitted[j].index = 1

----------------------------------------------------------------------------
(* The Ollama adapter under the dispatcher (specification SpecOllama) *)

MaxOllamaFrames == 3

FinishTools == Json(<<>>, <<>>, "tool_calls", Usage(100, 20))

\* every frame is valid JSON
OllamaFrames == {TextFrame, ToolF, ToolG, ToolArgs, FinishFrame, FinishTools}

InitOllama ==
  \E fs \in FrameSeqs(OllamaFrames, MaxOllamaFrames), tail \in {<<>>, <<DoneFrame>>} :
    Start("ollama", 200, fs \o tail, "frame")

SpecOllama == InitOllama /\ [][Next]_vars

\* C4: the tool_calls frame emitted at [DONE] carries the decoded object whenever the
\* argument deltas concatenate to the JSON text of an object, never the string
C4_ToolArgumentsDecoded ==
  \A j \in 1..Len(emitted) :
    emitted[j].has_tool_calls =>
      \A i \in 1..Len(emitted[j].tool_calls) :
        LET a == emitted[j].tool_calls[i].arguments IN
        ~(a.t = "str" /\ IsJsonText(a.v))

\* C5: frames that are each valid JSON never make parseStreamChunk throw
C5_NoThrowOnValidJson == promise # "rejected"

----------------------------------------------------------------------------
(* Claims about Anthropic tool calls and usage (specification SpecAnthropic) *)

\* the frames of the upstream body, in order
Frames == [i \in 1..(Len(stream) \div FrameLen) |-> stream[(i - 1) * FrameLen + 1].f]

HasFrame(f) == \E i \in 1..Len(Frames) : Frames[i] = f

\* the whole body was parsed without a failure
ParsedAll == upstream = "ended" /\ promise = "resolved"

ToolUseStarts(id) ==
  {j \in 1..Len(emitted) : IsStart(emitted[j]) /\ emitted[j].block = "tool_use"
                           /\ emitted[j].id = id}

\* C11: two tool calls of the same function name, with distinct upstream ids and
\* indices, each get their own tool_use content_block_start carrying their own id
C11_SameNameToolCalls ==
  (ParsedAll /\ HasFrame(ToolF) /\ HasFrame(ToolF2)) =>
     /\ ToolUseStarts("call_f") # {}
     /\ ToolUseStarts("call_f2") # {}

JsonDeltas(i) ==
  {k \in 1..Len(emitted) : emitted[k].type = "content_block_delta"
                           /\ emitted[k].block = "input_json_delta"
                           /\ emitted[k].index = i}

\* C12: no tool_use block gets more than one input_json_delta, however many argument
\* chunks upstream used for the call
C12_ArgumentsDeliveredWhole ==
  \A j \in 1..Len(emitted) :
    (IsStart(emitted[j]) /\ emitted[j].block = "tool_use") =>
      Cardinality(JsonDeltas(emitted[j].index)) <= 1

\* the usage upstream reported last
UpstreamUsage ==
  LET with == {i \in 1..Len(Frames) : Frames[i].usage.has} IN
  IF with = {} THEN NoUsage ELSE Frames[CHOOSE i \in with : \A k \in with : k <= i].usage

\* C13: message_delta.usage.input_tokens plus the upstream cached_tokens (which
\* cache_read_input_tokens reports, 0 when there are none) is the upstream prompt_tokens
C13_UsageDelta ==
  \A j \in 1..Len(emitted) :
    emitted[j].type = "message_delta" =>
      emitted[j].input_tokens + OrZero(UpstreamUsage.cached) = OrZero(UpstreamUsage.prompt)

----------------------------------------------------------------------------
(* The Responses adapter under the dispatcher (specification SpecResponses) *)

MaxResponseFrames == 3

\* a content delta that carries one annotation
AnnotatedFrame == [TextFrame EXCEPT !.annotations = 1]

ResponseFrames == {TextFrame, AnnotatedFrame, ToolF, ToolG, ToolArgs, FinishFrame, DoneFrame}

\* a 200 response with any body of these frames, delivered in chunks of whole frames
InitResponses ==
  \E fs \in FrameSeqs(ResponseFrames, MaxResponseFrames) :
    Start("response", 200, fs, "frame")

SpecResponses == InitResponses /\ [][Next]_vars

Positions(type) == {j \in 1..Len(emitted) : emitted[j].type = type}

\* C15: once response.completed has been emitted, no further event is emitted
C15_CompletedIsLast ==
  \A j \in Positions("response.completed") : j = Len(emitted)

\* the place of an event in the [DONE] group, 0 for the events outside it
DoneRank(ev) ==
  CASE ev.type = "response.content_part.done" -> 1
    [] ev.type = "response.output_item.done" -> 2
    [] ev.type = "response.output_text.done" -> 3
    [] ev.type = "response.function_call_arguments.done" -> 4
    [] ev.type = "response.completed" -> 5
    [] OTHER -> 0

\* the tool calls upstream has started in the frames before frame n
ToolCallsBefore(n) ==
  UNION {{Frames[i].tools[k].index : k \in 1..Len(Frames[i].tools)} : i \in 1..(n - 1)}

\* the frame that is the m-th [DONE] of the body
NthDone(m) ==
  CHOOSE n \in 1..Len(Frames) :
    Frames[n].kind = "done" /\ Cardinality({i \in 1..n : Frames[i].kind = "done"}) = m

\* the function_call_arguments.done events that come right before event j
ArgsDoneBefore(j) ==
  {k \in 1..(j - 1) : \A l \in k..(j - 1) : DoneRank(emitted[l]) = 4}

----------------------------------------------------------------------------
(* Claims about what the handlers write (specification Spec) *)

\* the frames that precede the first [DONE] of the body
FramesBeforeDone ==
  LET dones == {i \in 1..Len(Frames) : Frames[i].kind = "done"} IN
  IF dones = {} THEN Frames
  ELSE SubSeq(Frames, 1, (CHOOSE i \in dones : \A k \in dones : i <= k) - 1)

\* C18: the client of an OpenAI streaming request receives the upstream chunks that
\* precede the upstream [DONE], unmodified and in order, then one "data: [DONE]" as the
\* last thing before the response is closed, and no chunk located after [DONE]
C18_OpenAIPassThrough ==
  (proto = "openai" /\ CleanEnd) =>
     /\ res.out = <<Preamble>>
                    \o [i \in 1..Len(FramesBeforeDone) |-> EventFrame(FramesBeforeDone[i])]
                    \o <<Sentinel>>
     /\ res.endCalls = 1

\* every res.write of the request, in the order of the calls
Writes == res.out \o res.closedWrites \o res.lateWrites

\* the adapter events among the writes
EventsWritten ==
  LET ws == SelectSeq(Writes, LAMBDA w : w.w = "event") IN [i \in 1..Len(ws) |-> ws[i].ev]

\* C19: the adapter is given the upstream bytes in the order received (the buffer is
\* the tail of what was delivered) and its events are written in the order it emitted
\* them, across chunks and within a chunk
C19_PerRequestOrder ==
  /\ buffer = SubSeq(stream, pos - Len(buffer) + 1, pos)
  /\ EventsWritten = emitted

\* an Ollama body was parsed to its end and gave at least two different events
C19_Witness ==
  /\ proto = "ollama"
  /\ ParsedAll
  /\ Len(emitted) >= 2
  /\ emitted[1] # emitted[Len(emitted)]
  /\ EventsWritten = emitted

----------------------------------------------------------------------------
(* Non-streaming requests: adapter.parseResponse *)

MaxChoices == 2

\* one element of message.tool_calls; an empty id, name or arguments is a missing one
UnaryToolCall(id, name, args) == [id |-> id, name |-> name, arguments |-> args]

\* one element of response.choices: finish_reason, message.reasoning_content,
\* message.content and message.tool_calls
Choice(finish, reasoning, content, tcs) ==
  [finish |-> finish, reasoning |-> reasoning, content |-> content, tool_calls |-> tcs]

\* choices[0]?.finish_reason
FirstFinish(resp) == IF resp.choices = <<>> THEN "" ELSE resp.choices[1].finish

\* AnthropicAdapter.parseResponse: stopReasonMap[finishReason] || "end_turn"
UnaryStopReasonMap(finish) ==
  CASE finish = "stop" -> "end_turn"
    [] finish = "length" -> "max_tokens"
    [] finish = "tool_calls" -> "tool_use"
    [] finish = "content_filter" -> "stop_sequence"
    [] OTHER -> "end_turn"

\* let input = {}; JSON.parse(arguments), or { arguments } when that throws
AnthropicUnaryInput(args) ==
  IF args = <<>> THEN Obj(<<>>)
  ELSE IF JsonParse(Str(args)).ok THEN JsonParse(Str(args)).val
  ELSE Obj(<<"arguments">> \o args)

\* contentBlocks.push({ type: "text", text })
AnthropicTextBlock(content) ==
  [type |-> "text", id |-> "", name |-> "", input |-> Obj(<<>>), text |-> content]

\* contentBlocks.push({ type: "tool_use", id, name, input })
AnthropicToolUse(tc) ==
  [type |-> "tool_use", id |-> IF tc.id = "" THEN Minted ELSE tc.id,
   name |-> IF tc.name = "" THEN "unknown" ELSE tc.name,
   input |-> AnthropicUnaryInput(tc.arguments), text |-> <<>>]

RECURSIVE AnthropicContentBlocks(_)
\* for (const choice of openaiResp.choices) { ... }
AnthropicContentBlocks(choices) ==
  IF choices = <<>> THEN <<>>
  ELSE LET c == choices[1]
       IN (IF c.content # <<>> THEN <<AnthropicTextBlock(c.content)>> ELSE <<>>)
          \o [i \in 1..Len(c.tool_calls) |-> AnthropicToolUse(c.tool_calls[i])]
          \o AnthropicContentBlocks(Tail(choices))

\* AnthropicAdapter.parseResponse
AnthropicParseResponse(resp) ==
  LET finishReason == IF FirstFinish(resp) = "" THEN "stop" ELSE FirstFinish(resp)
  IN [type |-> "message", role |-> "assistant",
      content |-> AnthropicContentBlocks(resp.choices),
      stop_reason |-> UnaryStopReasonMap(finishReason)]

\* mapFinishReasonToStatus
MapFinishReasonToStatus(finish) ==
  IF finish \in {"length", "content_filter"} THEN "incomplete" ELSE "completed"

\* an item of the output list of a Responses response
OutputItem(type, st) ==
  [type |-> type, status |-> st, text |-> <<>>, name |-> "", arguments |-> <<>>, call_id |-> ""]

RECURSIVE ReasoningItems(_, _)
\* if (message.reasoning_content) { reasoningItems.push(...) }
ReasoningItems(choices, finish) ==
  IF choices = <<>> THEN <<>>
  ELSE (IF choices[1].reasoning # <<>>
        THEN <<[OutputItem("reasoning", MapFinishReasonToStatus(finish)) EXCEPT
                  !.text = choices[1].reasoning]>>
        ELSE <<>>)
       \o ReasoningItems(Tail(choices), finish)

RECURSIVE OutputTextParts(_)
\* if (message.content) { outputTextParts.push(message.content) }; outputTextParts.join("")
OutputTextParts(choices) ==
  IF choices = <<>> THEN <<>> ELSE choices[1].content \o OutputTextParts(Tail(choices))

\* toolCallItems.push({ type: "function_call", status: "completed", name, arguments, call_id })
FunctionCallItem(tc) ==
  [OutputItem("function_call", "completed") EXCEPT
     !.name = IF tc.name = "" THEN "unknown" ELSE tc.name,
     !.arguments = IF tc.arguments = <<>> THEN <<"{}">> ELSE tc.arguments,
     !.call_id = IF tc.id = "" THEN Minted ELSE tc.id]

RECURSIVE ToolCallItems(_)
\* for (const toolCall of message.tool_calls) { toolCallItems.push(...) }, over all choices
ToolCallItems(choices) ==
  IF choices = <<>> THEN <<>>
  ELSE [i \in 1..Len(choices[1].tool_calls) |-> FunctionCallItem(choices[1].tool_calls[i])]
       \o ToolCallItems(Tail(choices))

\* output.push(...reasoningItems); if (outputText) output.push(message); output.push(...toolCallItems)
ResponseOutput(reasoningItems, messageItems, toolCallItems) ==
  reasoningItems \o messageItems \o toolCallItems

\* OpenAIResponseAdapter.parseResponse
ResponseParseResponse(resp) ==
  LET finishReason == FirstFinish(resp)
      outputText == OutputTextParts(resp.choices)
      messageItems == IF outputText # <<>>
                      THEN <<[OutputItem("message", MapFinishReasonToStatus(finishReason))
                                EXCEPT !.text = outputText]>>
                      ELSE <<>>
  IN [object |-> "response", status |-> MapFinishReasonToStatus(finishReason),
      output |-> ResponseOutput(ReasoningItems(resp.choices, finishReason), messageItems,
                                ToolCallItems(resp.choices)),
      output_text |-> outputText]

\* adapter.parseResponse(response.data)
ParseResponse(p, resp) ==
  IF p = "anthropic" THEN AnthropicParseResponse(resp) ELSE ResponseParseResponse(resp)

\* #doSendUnified with stream = false: sendHttpRequest resolves with the upstream
\* response and the adapter converts it
SendUnary ==
  /\ ~unary.returned
  /\ unary' = [unary EXCEPT !.returned = TRUE,
                            !.result = [success |-> TRUE, data |-> ParseResponse(proto, unary.resp)]]
  /\ UNCHANGED <<proto, status, stream, pos, grain, buffer, state, promise, hpc,
                 upstream, clientClosed, res, emitted, splitAt, peer, auth, conv>>

NextUnary == SendUnary

UnaryCall1 == UnaryToolCall("call_1", "f", <<"{", "}">>)
UnaryCall2 == UnaryToolCall("call_2", "g", <<"{", "k", "v", "}">>)

FinishReasons == {"", "stop", "length", "tool_calls", "content_filter"}

\* the choices of an upstream response
Choices ==
  {Choice(fr, r, c, tcs) : fr \in FinishReasons, r \in {<<>>, <<"r">>}, c \in {<<>>, <<"a">>},
                           tcs \in {<<>>, <<UnaryCall1, UnaryCall2>>}}

InitUnary ==
  \E p \in {"anthropic", "response"}, cs \in FrameSeqs(Choices, MaxChoices) :
    /\ proto = p
    /\ status = 200
    /\ stream = <<>>
    /\ grain = "frame"
    /\ pos = 0
    /\ buffer = <<>>
    /\ state = AdapterInit(p)
    /\ promise = "pending"
    /\ hpc = "awaiting"
    /\ upstream = "ended"
    /\ clientClosed = FALSE
    /\ res = [out |-> <<>>, endCalls |-> 0, lateWrites |-> <<>>, closedWrites |-> <<>>]
    /\ emitted = <<>>
    /\ splitAt = 0
    /\ unary = [resp |-> [choices |-> cs], result |-> [success |-> FALSE], returned |-> FALSE]
    /\ peer = NoPeer
    /\ auth = NoAuth
    /\ conv = NoConv

SpecUnary == InitUnary /\ [][NextUnary]_vars

\* the table of the stop-reason mapping
StopReasonTable ==
  {<<"stop", "end_turn">>, <<"length", "max_tokens">>, <<"tool_calls", "tool_use">>,
   <<"content_filter", "refusal">>}

\* C14: the unary Anthropic response and the streaming message_delta map finish_reason
\* to stop_reason by one table: stop -> end_turn, length -> max_tokens,
\* tool_calls -> tool_use, content_filter -> refusal
C14_StopReasonMapping ==
  \A e \in StopReasonTable :
    /\ StopReasonMap(e[1]) = e[2]
    /\ (unary.returned /\ proto = "anthropic" /\ FirstFinish(unary.resp) = e[1])
         => unary.result.data.stop_reason = e[2]

\* the place of an item type in the order reasoning, message, function_call
ItemRank(type) ==
  CASE type = "reasoning" -> 1
    [] type = "message" -> 2
    [] OTHER -> 3

\* all reasoning items, then at most one message item, then all function_call items
OutputOrdered(items) ==
  /\ \A i, j \in 1..Len(items) : i < j => ItemRank(items[i].type) <= ItemRank(items[j].type)
  /\ Cardinality({i \in 1..Len(items) : items[i].type = "message"}) <= 1

\* the output list of the unary Responses response is ordered
UnaryOutputOrdered ==
  (unary.returned /\ proto = "response") => OutputOrdered(unary.result.data.output)

\* a unary Responses response with two reasoning items, a message and four function calls
UnaryOutputFull ==
  /\ unary.returned
  /\ proto = "response"
  /\ LET out == unary.result.data.output
     IN /\ Len(out) = 7
        /\ out[3].type = "message"

\* C17: the output list of response.completed.response holds the reasoning items,
\* then the message item, then the function_call items
C17_OutputOrdering ==
  \A i \in Positions("response.completed") :
    /\ emitted[i].output.present
    /\ OutputOrdered(emitted[i].output.items)

----------------------------------------------------------------------------
(* Two streaming requests in flight at the same time *)

MaxConcurrentFrames == 2

\* one heap for all requests: the chunk of the other request leaves its buffer and state in mine
OtherRequestShared(mine, theirs) == theirs

\* every call of sendHttpStreamingRequest declares its own "let buffer" and
\* "const incompleteResult": the chunk of another request leaves mine as they are
OtherRequest(mine, theirs) == mine

\* the sizes the next chunk of the second request can have: whole frames
PeerChunkSizes == {n \in 1..(Len(peer.stream) - peer.pos) : n % FrameLen = 0}

\* the second request after parseResp returned parsed for the buffer buf: the body of
\* the try block of its listener, or its catch block
PeerAfter(pr, buf, parsed, event) ==
  [pr EXCEPT !.buffer = IF event = "end" THEN pr.buffer
                        ELSE IF parsed.threw THEN BufferAfterThrow(buf) ELSE NextBuffer(parsed),
             !.state = parsed.state,
             !.emitted = IF parsed.threw THEN @ ELSE @ \o parsed.parsedMessages]

\* the listener of the second request on a chunk (event "data") or at the end of its body
PeerStep(pr, chunk, event) ==
  PeerAfter(pr, pr.buffer \o chunk, ParseStreamChunk(pr.proto, pr.buffer \o chunk, pr.state), event)

\* res.on("data", (chunk) => { ... }) of the second request
PeerData ==
  /\ peer.upstream = "open"
  /\ \E n \in PeerChunkSizes :
       peer' = [PeerStep(peer, SubSeq(peer.stream, peer.pos + 1, peer.pos + n), "data")
                  EXCEPT !.pos = @ + n]
  /\ buffer' = OtherRequest(buffer, peer'.buffer)
  /\ state' = OtherRequest(state, peer'.state)
  /\ UNCHANGED <<proto, status, stream, pos, grain, promise, hpc, upstream, clientClosed,
                 res, emitted, splitAt, unary, auth, conv>>

\* res.on("end", ...) of the second request
PeerEnd ==
  /\ peer.upstream = "open"
  /\ peer.pos = Len(peer.stream)
  /\ peer' = [PeerStep(peer, <<>>, "end") EXCEPT !.upstream = "ended"]
  /\ buffer' = OtherRequest(buffer, peer'.buffer)
  /\ state' = OtherRequest(state, peer'.state)
  /\ UNCHANGED <<proto, status, stream, pos, grain, promise, hpc, upstream, clientClosed,
                 res, emitted, splitAt, unary, auth, conv>>

NextConcurrent == Next \/ PeerData \/ PeerEnd

\* the second request streams a text answer or two tool calls
PeerTextStream == <<Json(<<"b">>, <<>>, "", NoUsage), FinishFrame, DoneFrame>>
PeerToolStream == <<ToolF2, ToolArgs, FinishNoUsage, DoneFrame>>

\* the bodies of the first request: some deltas, then [DONE]
ConcurrentBodies ==
  {fs \o <<DoneFrame>> : fs \in FrameSeqs({TextFrame, ToolF, ToolArgs, FinishFrame}, MaxConcurrentFrames)}

InitConcurrent ==
  \E p \in {"anthropic", "response"}, body \in ConcurrentBodies,
     other \in {PeerTextStream, PeerToolStream} :
    /\ proto = p
    /\ status = 200
    /\ stream = WireAll(body)
    /\ grain = "frame"
    /\ pos = 0
    /\ buffer = <<>>
    /\ state = AdapterInit(p)
    /\ promise = "pending"
    /\ hpc = "awaiting"
    /\ upstream = "open"
    /\ clientClosed = FALSE
    /\ res = [out |-> <<Preamble>>, endCalls |-> 0, lateWrites |-> <<>>, closedWrites |-> <<>>]
    /\ emitted = <<>>
    /\ splitAt = 0
    /\ unary = NoUnary
    /\ auth = NoAuth
    /\ conv = NoConv
    /\ peer = [proto |-> p, stream |-> WireAll(other), pos |-> 0, buffer |-> <<>>,
               state |-> AdapterInit(p), upstream |-> "open", emitted |-> <<>>]

SpecConcurrent == InitConcurrent /\ [][NextConcurrent]_vars

----------------------------------------------------------------------------
(* Claims about the end of a stream *)

\* the body has frames and its last frame is [DONE]
EndsWithDone == Len(Frames) > 0 /\ Frames[Len(Frames)] = DoneFrame

\* C30: in an Anthropic stream that reaches [DONE], every content_block_start with
\* index i is followed by exactly one content_block_stop with index i, which comes
\* before the next content_block_start and before message_stop
C30_BlocksAlwaysClosed ==
  (ParsedAll /\ EndsWithDone) =>
    \A j \in 1..Len(emitted) :
      IsStart(emitted[j]) =>
        /\ \E k \in (j + 1)..Len(emitted) :
             /\ IsStop(emitted[k])
             /\ emitted[k].index = emitted[j].index
             /\ \A m \in (j + 1)..(k - 1) :
                  ~IsStart(emitted[m]) /\ emitted[m].type # "message_stop"
        /\ Cardinality({k \in 1..Len(emitted) :
                          IsStop(emitted[k]) /\ emitted[k].index = emitted[j].index}) = 1

RECURSIVE AllToolDeltas(_)
\* every element of delta.tool_calls of the frames fs, in order of arrival
AllToolDeltas(fs) ==
  IF fs = <<>> THEN <<>> ELSE fs[1].tools \o AllToolDeltas(Tail(fs))

\* the function names the upstream body carries
NamesSeen ==
  LET ds == AllToolDeltas(Frames) IN {ds[i].name : i \in {j \in 1..Len(ds) : ds[j].name # ""}}

RECURSIVE ArgsFrom(_, _)
\* the arguments of the deltas from position k up to the next delta that carries a name
ArgsFrom(ds, k) ==
  IF k > Len(ds) THEN <<>>
  ELSE ds[k].args \o (IF k + 1 <= Len(ds) /\ ds[k + 1].name = "" THEN ArgsFrom(ds, k + 1) ELSE <<>>)

\* the arguments received after the latest delta that carried the name
ArgsAfterLatest(name) ==
  LET ds == AllToolDeltas(Frames)
      k == CHOOSE i \in 1..Len(ds) :
             ds[i].name = name /\ \A j \in (i + 1)..Len(ds) : ds[j].name # name
  IN ArgsFrom(ds, k)

\* the emitted frames that carry tool calls
ToolCallFrames == {j \in 1..Len(emitted) : emitted[j].has_tool_calls}

\* the body has the order of an upstream stream: deltas, at most one frame with a
\* finish_reason, [DONE]
ProtocolOrder ==
  /\ EndsWithDone
  /\ \A i \in 1..Len(Frames) :
       Frames[i].finish # "" => \A j \in (i + 1)..Len(Frames) : Frames[j] = DoneFrame

\* C28: on [DONE] the Ollama adapter emits one tool_calls frame with done:false if
\* and only if tool accumulators exist, and then exactly one frame with done:true,
\* which is the last frame of the stream; no earlier frame has done:true
C28_TwoFrameTermination ==
  (ParsedAll /\ ProtocolOrder) =>
    /\ Len(emitted) >= 1
    /\ emitted[Len(emitted)].done
    /\ \A j \in 1..(Len(emitted) - 1) : ~emitted[j].done
    /\ Cardinality(ToolCallFrames) = IF NamesSeen # {} THEN 1 ELSE 0
    /\ \A j \in ToolCallFrames : j = Len(emitted) - 1

\* a content frame, then the tool_calls frame, then the terminal frame
C28_Witness ==
  /\ ParsedAll
  /\ ProtocolOrder
  /\ Len(emitted) = 3
  /\ emitted[1].content # <<>>
  /\ emitted[2].has_tool_calls
  /\ emitted[3].done

\* C29: no tool-call data is emitted before [DONE]; the tool_calls frame has exactly
\* one entry per distinct function name seen, and an entry holds the arguments
\* received after the latest delta that carried its name
C29_AccumulatorKeyedByName ==
  (ParsedAll /\ ProtocolOrder) =>
    /\ \A j \in ToolCallFrames : j = Len(emitted) - 1
    /\ NamesSeen # {} =>
         \E j \in ToolCallFrames :
           LET tcs == emitted[j].tool_calls IN
           /\ Len(tcs) = Cardinality(NamesSeen)
           /\ {tcs[i].name : i \in 1..Len(tcs)} = NamesSeen
           /\ \A i \in 1..Len(tcs) :
                LET want == ArgsAfterLatest(tcs[i].name)
                    a == tcs[i].arguments
                IN IF a.t = "str" THEN a.v = want ELSE a = JsonParse(Str(want)).val

\* the name f came twice with arguments in between, and the one entry under f holds
\* none of them
C29_Witness ==
  /\ ParsedAll
  /\ ProtocolOrder
  /\ LET ds == AllToolDeltas(Frames)
     IN /\ Len(ds) = 3
        /\ ds[1].name = "f" /\ ds[2].args # <<>> /\ ds[3].name = "f"
  /\ \E j \in ToolCallFrames :
       /\ Len(emitted[j].tool_calls) = 1
       /\ emitted[j].tool_calls[1].arguments = Str(<<>>)

----------------------------------------------------------------------------
(* The end-of-stream drain (specification SpecDrain) *)

MaxDrainFrames == 2

DrainFrames == {TextFrame, ToolF, DoneFrame}

\* the body without the last cut newlines of its last frame
CutTail(body, cut) == SubSeq(body, 1, Len(body) - cut)

\* bodies whose last data line is followed by a blank line, by one newline or by nothing
InitDrain ==
  \E p \in {"ollama", "openai", "anthropic", "response"},
     fs \in FrameSeqs(DrainFrames, MaxDrainFrames), cut \in 0..2 :
    /\ fs # <<>>
    /\ StartBody(p, 200, CutTail(WireAll(fs), cut), "byte")

SpecDrain == InitDrain /\ [][Next]_vars

\* C27: at the end of the upstream body the final call of parseStreamChunk leaves no
\* data line unprocessed in the buffer, and every block or output item the adapter
\* opened has been closed
C27_EndOfStreamDrain ==
  ParsedAll =>
    /\ \A i \in 1..Len(RemainBuffer(buffer)) : RemainBuffer(buffer)[i].t # "head"
    /\ proto = "anthropic" =>
         \A j \in 1..Len(emitted) :
           IsStart(emitted[j]) =>
             \E k \in (j + 1)..Len(emitted) :
               IsStop(emitted[k]) /\ emitted[k].index = emitted[j].index
    /\ proto = "response" =>
         (Positions("response.output_item.added") # {}
            => Positions("response.output_item.done") # {})

----------------------------------------------------------------------------
(* The credential checks of one request (specification SpecRequest) *)

\* the variables of the streaming pipeline and of the other requests
streamVars == <<proto, status, stream, pos, grain, buffer, state, promise, hpc,
                upstream, clientClosed, res, emitted, splitAt, unary, peer>>

\* no stream is in flight
NoStream(p) ==
  /\ proto = p
  /\ status = 200
  /\ stream = <<>>
  /\ grain = "frame"
  /\ pos = 0
  /\ buffer = <<>>
  /\ state = AdapterInit(p)
  /\ promise = "pending"
  /\ hpc = "awaiting"
  /\ upstream = "ended"
  /\ clientClosed = FALSE
  /\ res = [out |-> <<>>, endCalls |-> 0, lateWrites |-> <<>>, closedWrites |-> <<>>]
  /\ emitted = <<>>
  /\ splitAt = 0
  /\ unary = NoUnary
  /\ peer = NoPeer

\* the stored token as getGithubToken reports it
TokenStates == {"absent", "expired", "valid"}

\* checkStatus(): without the sign-in record it returns before the token is looked up
StatusReads(a) == IF a.signedIn THEN 1 ELSE 0

\* status.authenticated && status.tokenValid
StatusOk(a) == a.signedIn /\ a.token = "valid"

\* the handler's answer to { success: false }: an error frame on the open stream,
\* or res.status(500).json(...)
ReplyFailure(a) ==
  IF a.streaming THEN [a EXCEPT !.errorFrame = TRUE, !.pc = "done"]
  ELSE [a EXCEPT !.http = 500, !.pc = "done"]

\* ensureCopilotSetup
EnsureCopilotSetup ==
  /\ auth.pc = "setup"
  /\ auth' = IF StatusOk(auth)
             THEN [auth EXCEPT !.pc = "check", !.reads = @ + StatusReads(auth)]
             ELSE [auth EXCEPT !.pc = "done", !.http = 401, !.reads = @ + StatusReads(auth),
                               !.absent = ~auth.signedIn \/ auth.token = "absent"]
  /\ UNCHANGED <<streamVars, conv>>

\* if (!token || expired) { if (refreshToken) { await this.auth.signIn(true) ... } }
AfterTokenCheck(token) == IF token \in {"absent", "expired"} THEN "refresh" ELSE "send"

\* the handler up to #checkGithubToken: a streaming handler has sent its headers and
\* the preamble, then the token is looked up
CheckGithubToken ==
  /\ auth.pc = "check"
  /\ auth' = [auth EXCEPT !.pc = AfterTokenCheck(auth.token),
                          !.http = IF auth.streaming THEN 200 ELSE @,
                          !.reads = @ + 1,
                          !.seen = auth.token,
                          !.absent = @ \/ auth.token = "absent"]
  /\ UNCHANGED <<streamVars, conv>>

\* await this.auth.signIn(true), then checkStatus(): the refresh of the token, which
\* the token endpoint grants or refuses
SignIn ==
  /\ auth.pc = "refresh"
  /\ \E granted \in BOOLEAN :
       auth' = IF granted
               THEN [auth EXCEPT !.pc = "send", !.refreshes = @ + 1, !.signedIn = TRUE,
                                 !.token = "valid", !.reads = @ + StatusReads(auth) + 2]
               ELSE [ReplyFailure(auth) EXCEPT !.refreshes = @ + 1, !.refreshFailed = TRUE,
                                               !.reads = @ + 2 * StatusReads(auth)]
  /\ UNCHANGED <<streamVars, conv>>

\* #doSendUnified up to the upstream call: the token is looked up again
DoSendUnified ==
  /\ auth.pc = "send"
  /\ auth' = IF auth.token = "absent"
             THEN [ReplyFailure(auth) EXCEPT !.reads = @ + 1, !.absent = TRUE]
             ELSE [auth EXCEPT !.pc = "upstream", !.reads = @ + 1, !.calls = @ + 1]
  /\ UNCHANGED <<streamVars, conv>>

\* a client that sends the request again after a failure
AfterUpstreamRetry(sc) == IF sc = 200 THEN "done" ELSE "send"

\* the result of the one upstream call is returned, whatever it is
AfterUpstream(sc) == "done"

\* the upstream answers: res.statusCode === 200 resolves, any other status rejects
UpstreamResponse ==
  /\ auth.pc = "upstream"
  /\ \E sc \in {200, 401, 500} :
       auth' = IF sc = 200
               THEN [auth EXCEPT !.pc = AfterUpstream(sc), !.http = 200, !.upstreamReturned = sc]
               ELSE [ReplyFailure(auth) EXCEPT !.pc = AfterUpstream(sc), !.upstreamReturned = sc]
  /\ UNCHANGED <<streamVars, conv>>

\* the clock passes expires_at
TokenExpires ==
  /\ auth.pc \in {"setup", "check", "refresh", "send", "upstream"}
  /\ auth.token = "valid"
  /\ auth' = [auth EXCEPT !.token = "expired"]
  /\ UNCHANGED <<streamVars, conv>>

\* signOut() removes the sign-in record and the token
SignOut ==
  /\ auth.pc \in {"setup", "check", "refresh", "send", "upstream"}
  /\ auth.signedIn
  /\ auth' = [auth EXCEPT !.token = "absent", !.signedIn = FALSE]
  /\ UNCHANGED <<streamVars, conv>>

NextRequest ==
  \/ EnsureCopilotSetup
  \/ CheckGithubToken
  \/ SignIn
  \/ DoSendUnified
  \/ UpstreamResponse
  \/ TokenExpires
  \/ SignOut

InitRequest ==
  \E p \in {"ollama", "openai"}, si \in BOOLEAN, tk \in TokenStates, st \in BOOLEAN :
    /\ NoStream(p)
    /\ conv = NoConv
    /\ auth = [pc |-> "setup", signedIn |-> si, token |-> tk, streaming |-> st,
               reads |-> 0, refreshes |-> 0, calls |-> 0, http |-> 0, seen |-> "",
               absent |-> FALSE, refreshFailed |-> FALSE, errorFrame |-> FALSE,
               upstreamReturned |-> 0]

SpecRequest == InitRequest /\ [][NextRequest]_vars

\* C21: a request is answered with HTTP 401 exactly when a lookup found the credentials
\* absent, or the token was expired and the refresh failed, or the upstream returned 401
C21_AuthFailuresAre401 ==
  auth.pc = "done" =>
    (auth.http = 401 <=> (auth.absent \/ auth.refreshFailed \/ auth.upstreamReturned = 401))

\* C22: one request refreshes the token at most once, only after a lookup that found
\* it absent or expired and only before the upstream call, and makes at most one
\* upstream call
C22_NoRetries ==
  /\ [](auth.refreshes <= 1 /\ auth.calls <= 1)
  /\ [][auth'.refreshes > auth.refreshes
          => (auth.seen \in {"absent", "expired"} /\ auth.calls = 0)]_vars

\* the token expired after the middleware, was refreshed once, and the one upstream
\* call failed
C22_Witness ==
  /\ auth.pc = "done"
  /\ auth.refreshes = 1
  /\ auth.calls = 1
  /\ auth.upstreamReturned = 500

\* C26: while handling one request the token is looked up exactly once
C26_SingleCredentialRead == auth.pc = "done" => auth.reads = 1

----------------------------------------------------------------------------
(* The upstream request made from an inbound request (specification SpecConvert) *)

\* modelId of the hard-coded model
FallbackModel == "gpt-4o-2024-11-20"

\* #getDefaultModel: the current model of the provider if the call succeeded
GetDefaultModel(current) == IF current.success THEN current.modelId ELSE FallbackModel

\* a || b on strings
OrElse(a, b) == IF a # "" THEN a ELSE b

\* typeof a === "string" ? a : JSON.stringify(a): undefined stays undefined, and the
\* member is left out of the request body
Stringify(args) == IF args = "absent" THEN "missing" ELSE "string"

\* the arguments as they are in the inbound request
AsIs(args) == IF args = "absent" THEN "missing" ELSE args

\* handleChatRequest before the client is called: options.model = model writes into
\* req.body.options when the request has options
OllamaHandler(body) ==
  [body |-> [body EXCEPT !.options = IF @ = "absent" THEN @ ELSE "with model"],
   model |-> OrElse(body.model, FallbackModel)]

\* sendRequest / sendStreamingRequest and OllamaAdapter.convertRequest: the payload
\* takes options.model, which the handler has set
OllamaConvertRequest(body, current) ==
  LET h == OllamaHandler(body)
      payload == [model |-> OrElse(h.model, GetDefaultModel(current))]
  IN  [body |-> h.body,
       request |-> [model |-> payload.model,
                    args |-> IF body.args = "none" THEN "none" ELSE Stringify(body.args),
                    params |-> body.params],
       same |-> FALSE]

\* OpenAIAdapter.convertRequest: return payload
OpenAIConvertRequest(body) ==
  [body |-> body,
   request |-> [model |-> body.model, args |-> AsIs(body.args), params |-> body.params],
   same |-> TRUE]

\* AnthropicAdapter.convertRequest
AnthropicConvertRequest(body) ==
  [body |-> body,
   request |-> [model |-> OrElse(body.model, FallbackModel),
                args |-> IF body.args = "none" THEN "none" ELSE Stringify(body.args),
                params |-> body.params],
   same |-> FALSE]

\* parseTools: parameters.type = "object" on tool.function.parameters itself
ParseTools(params) == IF params = "untyped" THEN "typed" ELSE params

\* OpenAIResponseAdapter.convertRequest: function_call items of the input have no role
\* and make no message
ResponseConvertRequest(body) ==
  [body |-> [body EXCEPT !.params = ParseTools(@)],
   request |-> [model |-> body.model, args |-> "none",
                params |-> IF body.params = "absent" THEN "typed" ELSE ParseTools(body.params)],
   same |-> FALSE]

ConvertRequest(p, body, current) ==
  CASE p = "ollama" -> OllamaConvertRequest(body, current)
    [] p = "openai" -> OpenAIConvertRequest(body)
    [] p = "anthropic" -> AnthropicConvertRequest(body)
    [] OTHER -> ResponseConvertRequest(body)

\* if (!openaiPayload.model) openaiPayload.model = defaultModel.modelConfig.modelId:
\* the assignment reaches the inbound object when the adapter returned it
FillDefaultModel(c, current) ==
  IF c.request.model # "" THEN c
  ELSE [c EXCEPT !.request.model = GetDefaultModel(current),
                 !.body.model = IF c.same THEN GetDefaultModel(current) ELSE @]

\* the forms of a message's content: a string; an image attached in the protocol's own
\* way (Ollama images member, Anthropic image block, Responses input_image part, OpenAI
\* image_url part); an array of content parts with an image_url part; an array of text
\* parts
Contents == {"string", "own image", "image_url part", "text part"}

\* adapter.detectVisionRequest(payload)
DetectVisionRequest(p, content) ==
  CASE p = "ollama" -> content = "own image"
    [] p = "openai" -> content \in {"own image", "image_url part"}
    [] p = "anthropic" -> content = "own image"
    [] OTHER -> content \in {"own image", "image_url part"}

\* whether a message of the request made by convertRequest has an image_url part: the
\* Ollama and OpenAI adapters keep a content array as it is, the Anthropic adapter
\* drops the blocks it does not know, the Responses adapter keeps them
HasImageUrl(p, content) ==
  CASE p = "ollama" -> content \in {"own image", "image_url part"}
    [] p = "openai" -> content \in {"own image", "image_url part"}
    [] p = "anthropic" -> content = "own image"
    [] OTHER -> content \in {"own image", "image_url part"}

\* the handler and #doSendUnified up to the upstream call
SendRequest ==
  /\ ~conv.done
  /\ LET c == FillDefaultModel(ConvertRequest(proto, conv.inbound, conv.current), conv.current)
     IN  conv' = [conv EXCEPT !.done = TRUE, !.now = c.body, !.request = c.request,
                              !.vision = DetectVisionRequest(proto, conv.inbound.content),
                              !.imageUrl = HasImageUrl(proto, conv.inbound.content)]
  /\ UNCHANGED <<streamVars, auth>>

NextConvert == SendRequest

\* the results of getCurrentModel()
CurrentModels == {[success |-> TRUE, modelId |-> "claude-sonnet-4"],
                  [success |-> FALSE, modelId |-> ""]}

\* decoded request bodies: model named or omitted, options given or not, the arguments
\* (or input) of a tool call of the history, the parameters of a tool definition, the
\* content of a message
Bodies ==
  [model : {"", "gpt-4.1"},
   options : {"absent", "plain"},
   args : {"none", "string", "object", "absent"},
   params : {"none", "absent", "untyped", "typed"},
   content : Contents]

InitConvert ==
  \E p \in {"ollama", "openai", "anthropic", "response"}, body \in Bodies, cur \in CurrentModels :
    /\ NoStream(p)
    /\ auth = NoAuth
    /\ conv = [done |-> FALSE, inbound |-> body, now |-> body, current |-> cur,
               request |-> [model |-> "", args |-> "none", params |-> "none"],
               vision |-> FALSE, imageUrl |-> FALSE]

SpecConvert == InitConvert /\ [][NextConvert]_vars

\* C23: the model of the upstream request is the model the inbound request names; when
\* it names none it is the provider's current model, and the hard-coded model only
\* when the provider has none
C23_DefaultModel ==
  conv.done =>
    conv.request.model =
      (IF conv.inbound.model # "" THEN conv.inbound.model
       ELSE IF conv.current.success THEN conv.current.modelId
       ELSE FallbackModel)

\* C24: the arguments of every tool call of an upstream request are a JSON string
C24_ArgumentsAreStrings == conv.done => conv.request.args \in {"none", "string"}

\* C25: after the upstream request is made the inbound request is as it was decoded
C25_InboundNotMutated == conv.done => conv.now = conv.inbound

----------------------------------------------------------------------------
(* Claims about the events of an Anthropic stream *)

\* the block of index i is open before the event at position j: it was started and
\* not stopped since
OpenBlockStart(i, j) ==
  {k \in 1..(j - 1) :
     /\ IsStart(emitted[k])
     /\ emitted[k].index = i
     /\ \A m \in (k + 1)..(j - 1) : ~(IsStop(emitted[m]) /\ emitted[m].index = i)}

\* the delta type that belongs to a block type
DeltaTypeOf(block) == IF block = "tool_use" THEN "input_json_delta" ELSE block

\* C31: every content_block_delta carries the index of a block that is open, and its
\* delta type is the one of that block: text in a text block, input_json_delta in a
\* tool_use block
C31_DeltasMatchTheirBlock ==
  \A j \in 1..Len(emitted) :
    emitted[j].type = "content_block_delta" =>
      /\ OpenBlockStart(emitted[j].index, j) # {}
      /\ \A k \in OpenBlockStart(emitted[j].index, j) :
           emitted[j].block = DeltaTypeOf(emitted[k].block)

\* C32: message_start is the first event of an Anthropic stream and no later event is
\* a message_start; in particular no message_stop is emitted without it
C32_MessageStartFirstAndOnce ==
  emitted # <<>> =>
    /\ emitted[1].type = "message_start"
    /\ \A j \in 2..Len(emitted) : emitted[j].type # "message_start"

----------------------------------------------------------------------------
(* Claims about the events of a Responses stream *)

\* the events that carry the output_index of a tool call
ToolCallEvents ==
  Positions("response.function_call_arguments.delta")
    \cup Positions("response.function_call_arguments.done")

\* C33: the output_index of a tool call is never the output_index of the message item
\* that response.output_item.added announced, and two tool calls never have the same
\* output_index
C33_OutputIndexUnique ==
  proto = "response" =>
    /\ \A j \in ToolCallEvents : \A k \in Positions("response.output_item.added") :
         emitted[j].output_index # emitted[k].output_index
    /\ \A a, b \in 1..Len(state.obj.toolCalls) :
         a # b => state.obj.toolCalls[a].outputIndex # state.obj.toolCalls[b].outputIndex

RECURSIVE ConcatDeltas(_, _, _)
\* the delta fields of the events before position j that are in the set ps, in order
ConcatDeltas(ps, j, k) ==
  IF k >= j THEN <<>>
  ELSE (IF k \in ps THEN emitted[k].text ELSE <<>>) \o ConcatDeltas(ps, j, k + 1)

\* C34: the text of response.output_text.done is the concatenation of the deltas of
\* the response.output_text.delta events, and the arguments of a
\* response.function_call_arguments.done whose item_id upstream supplied are the
\* concatenation of the deltas of the response.function_call_arguments.delta events
\* with that item_id
C34_AccumulatorsEqualDeltas ==
  /\ \A j \in Positions("response.output_text.done") :
       emitted[j].text = ConcatDeltas(Positions("response.output_text.delta"), j, 1)
  /\ \A j \in Positions("response.function_call_arguments.done") :
       emitted[j].item_id # Minted =>
         emitted[j].text =
           ConcatDeltas({k \in Positions("response.function_call_arguments.delta") :
                           emitted[k].item_id = emitted[j].item_id}, j, 1)

----------------------------------------------------------------------------
(* The end of the client response, whatever upstream does (specification SpecLive) *)

MaxLiveFrames == 2

\* https.request(options, (res) => { ... }): the response arrives and the listeners
\* for 'data' and 'end' are registered
Response ==
  /\ upstream = "connecting"
  /\ upstream' = "open"
  /\ UNCHANGED <<proto, status, stream, pos, grain, buffer, state, promise, hpc,
                 clientClosed, res, emitted, splitAt, unary, peer, auth, conv>>

\* req.on("error", (error) => { reject(...) }): the connection fails before a response
ReqError ==
  /\ upstream = "connecting"
  /\ upstream' = "failed"
  /\ promise' = Reject(promise)
  /\ UNCHANGED <<proto, status, stream, pos, grain, buffer, state, hpc,
                 clientClosed, res, emitted, splitAt, unary, peer, auth, conv>>

\* the connection is reset in the middle of the body: the response emits 'aborted',
\* 'error' and 'close' but not 'end', and none of the three has a listener; an 'error'
\* event without a listener is ignored or ends the process, depending on the runtime
ResAborted ==
  /\ upstream = "open"
  /\ Drained
  /\ pos < Len(stream)
  /\ upstream' = "reset"
  /\ \E crash \in BOOLEAN : hpc' = IF crash THEN "crashed" ELSE hpc
  /\ UNCHANGED <<proto, status, stream, pos, grain, buffer, state, promise,
                 clientClosed, res, emitted, splitAt, unary, peer, auth, conv>>

\* upstream stops sending and keeps the connection open: the request has no timeout
Stall ==
  /\ upstream = "open"
  /\ Drained
  /\ upstream' = "stalled"
  /\ UNCHANGED <<proto, status, stream, pos, grain, buffer, state, promise, hpc,
                 clientClosed, res, emitted, splitAt, unary, peer, auth, conv>>

NextLive ==
  \/ ResData
  \/ ResEnd
  \/ HandlerResume
  \/ ClientClose
  \/ Response
  \/ ReqError
  \/ ResAborted
  \/ Stall

\* a streaming request of one of the two handlers has been sent upstream
InitLive ==
  \E p \in {"ollama", "openai"}, sc \in {200, 500}, fs \in FrameSeqs(PipelineFrames, MaxLiveFrames) :
    StartAt(p, sc, WireAll(fs), "frame", "connecting")

\* every listener and continuation that can run does run
SpecLive == InitLive /\ [][NextLive]_vars /\ WF_vars(NextLive)

\* C35: the handler eventually ends the client response
C35_StreamEventuallyClosed == <>(res.endCalls > 0)

----------------------------------------------------------------------------
(* Claims about the headers of the upstream request (specification SpecConvert) *)

\* C36: the upstream request has the header Copilot-Vision-Request: true exactly when
\* a message of the upstream payload has an image_url content part
C36_VisionHeaderMatchesPayload == conv.done => (conv.vision <=> conv.imageUrl)

----------------------------------------------------------------------------
(* Claims about the buffer of the dispatcher (specification Spec) *)

\* the upstream text received so far
Received == SubSeq(stream, 1, pos)

\* C37: after each chunk the buffer carried over is the text after the last blank line
\* of the text received so far, so that it holds no complete frame and no frame is
\* handed to the adapter a second time
C37_OnlyIncompleteTailRetained == buffer = RemainBuffer(Received)

----------------------------------------------------------------------------
(* The polling loop of the device-code sign-in (specification SpecPoll) *)

\* const pollInterval = (deviceAuthData.interval ?? 3) * 1000
PollInterval(data) == (IF data.hasInterval THEN data.interval ELSE 3) * 1000

\* response = await this.#poll(device_code), and the two tests on its status
Poll ==
  /\ auth.pc = "poll"
  /\ \E st \in {"pending", "failed", "complete"} :
       auth' = [auth EXCEPT !.pc = CASE st = "failed" -> "thrown"
                                     [] st = "complete" -> "returned"
                                     [] OTHER -> "sleep"]
  /\ UNCHANGED <<streamVars, conv>>

\* pollTimeOut -= pollInterval
TimeOutAfter(t, interval) == t - interval

\* await new Promise((resolve) => setTimeout(resolve, pollInterval)), the decrement
\* and the test of the while loop
Sleep ==
  /\ auth.pc = "sleep"
  /\ LET left == TimeOutAfter(auth.pollTimeOut, PollInterval(auth.data))
     IN  auth' = [auth EXCEPT !.pollTimeOut = left,
                              !.pc = IF left > 0 THEN "poll" ELSE "timed out"]
  /\ UNCHANGED <<streamVars, conv>>

NextPoll == Poll \/ Sleep

\* the device-authorization responses: without interval, or with one of these (seconds)
DeviceAuthData ==
  {[hasInterval |-> FALSE, interval |-> 0]}
    \cup {[hasInterval |-> TRUE, interval |-> i] : i \in {0, 1, 5, 60, 200}}

\* #signInGithHub at its loop: let pollTimeOut = 120 * 1000
InitPoll ==
  \E data \in DeviceAuthData :
    /\ NoStream("ollama")
    /\ conv = NoConv
    /\ auth = [pc |-> "poll", data |-> data, pollTimeOut |-> 120 * 1000]

\* every poll gets an answer and every timer fires
SpecPoll == InitPoll /\ [][NextPoll]_vars /\ WF_vars(NextPoll)

\* C38: the polling loop stops: it returns, throws or runs out of its budget
C38_PollingTerminates == <>(auth.pc \in {"returned", "thrown", "timed out"})

====
